---- MODULE Spec2Model ----
(***************************************************************************)
(* A model of OReillyBooksOnline.py: the paginated fetch (retrieve_json),  *)
(* the document assembly (retrieve_book), the per-asset patch (_patch),    *)
(* the package finalizer and the persistence stage of run().               *)
(*                                                                         *)
(* Strings are sequences of tokens.  A path or media type is tokenised at  *)
(* every "/" and "." (both are tokens of their own, the words between them *)
(* hold neither); a URL reference may start with a scheme token ("https:") *)
(* and a host token ("//host") and may end with a query token ("?q") and a *)
(* fragment token ("#f").                                                  *)
(***************************************************************************)
EXTENDS Integers, Sequences, FiniteSets, TLC

VARIABLES
    args,      \* self.args: woff2, extra_attrs, css_map
    server,    \* the remote API: url -> response body
    pc,        \* the position of run() / of the operation under study
    tasks,     \* the retrieve_json tasks: name -> task state
    requests,  \* how many times each URL was handed to _request
    book,      \* the document: components, assets
    fetched,   \* the asset fetch fan-out: file index -> task state
    patched,   \* how many patch tasks have run
    replaced,  \* what the patch tasks returned (replacement assets)
    scratch,   \* tempfile.gettempdir(): filename -> bytes
    disk,      \* files written by _write under <root>/EPUB: path -> bytes
    saved,     \* the assets whose write task has completed
    elem       \* the reference attribute of one element (path rewrite study)

vars == <<args, server, pc, tasks, requests, book, fetched, patched, replaced,
          scratch, disk, saved, elem>>

(***************************************************************************)
(* Bounds of the model.                                                    *)
(***************************************************************************)
MaxPages == 3
MaxResults == 2
MaxExtra == 2
MaxFetched == 1
MaxElems == 2
PerPage == 2
MaxRewrites == 2

(***************************************************************************)
(* Sequences and token strings.                                            *)
(***************************************************************************)
Null == <<>>

Range(s) == {s[i] : i \in 1..Len(s)}

SeqsUpTo(S, n) == UNION {[1..k -> S] : k \in 0..n}

RECURSIVE Concat(_)
Concat(ss) == IF ss = <<>> THEN <<>> ELSE Head(ss) \o Concat(Tail(ss))

\* '/'.join(parts)
RECURSIVE Join(_)
Join(parts) ==
    IF Len(parts) = 0 THEN <<>>
    ELSE IF Len(parts) = 1 THEN parts[1]
    ELSE parts[1] \o <<"/">> \o Join(Tail(parts))

\* [item for item in parts if item]
NonEmpty(parts) == SelectSeq(parts, LAMBDA p : p # <<>>)

\* the positions of "/" in s
Slashes(s) == {i \in 1..Len(s) : s[i] = "/"}

Max(S) == CHOOSE x \in S : \A y \in S : y <= x

\* str.split('/')
RECURSIVE SplitSlash(_)
SplitSlash(s) ==
    IF Slashes(s) = {} THEN <<s>>
    ELSE LET i == CHOOSE j \in Slashes(s) : \A k \in Slashes(s) : j <= k
         IN <<SubSeq(s, 1, i - 1)>> \o SplitSlash(SubSeq(s, i + 1, Len(s)))

\* os.path.basename
Basename(p) ==
    IF Slashes(p) = {} THEN p ELSE SubSeq(p, Max(Slashes(p)) + 1, Len(p))

\* strip the trailing "/" tokens of s
RECURSIVE RStripSlash(_)
RStripSlash(s) ==
    IF s # <<>> /\ s[Len(s)] = "/" THEN RStripSlash(SubSeq(s, 1, Len(s) - 1))
    ELSE s

\* os.path.dirname (posixpath): the head up to the last "/", its trailing
\* slashes stripped unless it is made of slashes only
Dirname(p) ==
    IF Slashes(p) = {} THEN <<>>
    ELSE LET head == SubSeq(p, 1, Max(Slashes(p)))
         IN IF RStripSlash(head) = <<>> THEN head ELSE RStripSlash(head)

\* re.sub(r'[^/]+', '..', s): every maximal run of non-slash tokens becomes ".."
RECURSIVE DotDot(_)
DotDot(s) ==
    IF s = <<>> THEN <<>>
    ELSE IF s[1] = "/" THEN <<"/">> \o DotDot(Tail(s))
    ELSE IF Len(s) > 1 /\ s[2] # "/" THEN DotDot(Tail(s))
    ELSE <<"..">> \o DotDot(Tail(s))

\* re.sub(r'[/.](ttf|otf)$', '.woff2', s)
ReSubFont(s) ==
    IF Len(s) >= 2 /\ s[Len(s) - 1] \in {"/", "."} /\ s[Len(s)] \in {"ttf", "otf"}
    THEN SubSeq(s, 1, Len(s) - 2) \o <<".", "woff2">>
    ELSE s

(***************************************************************************)
(* The Resource Fetcher: _request and retrieve_json.                       *)
(***************************************************************************)
HTTP_OK == {200}
Statuses == {200, 500}

EnvelopeKeys == {"count", "next", "previous", "results"}

\* a parsed JSON body: a dict (a record) or a list (a sequence)
JDict(r) == [type |-> "dict", val |-> r]
JList(s) == [type |-> "list", val |-> s]

Envelope(count, nxt, prev, results) ==
    JDict([count |-> count, next |-> nxt, previous |-> prev, results |-> results])

\* `not x` for a JSON string or null (null and the empty string are both <<>>)
Falsy(x) == x = Null

\* a retrieve_json call: the URL its innermost frame is about to request, and
\* the `results` its outer frames hold until their recursive call returns
NewTask(url) == [state |-> "pending", url |-> url, frames |-> <<>>, result |-> <<>>]

\* a variant of FrameReturn: the recursive call's result put first
FrameReturnSwapped(results, ret) == ret \o results

\* the return of a frame that holds `results` and whose recursive call
\* returned `ret`: result.json['results'] + (await self.retrieve_json(...))
FrameReturn(results, ret) == results \o ret

\* the returns of the pending frames, innermost first
RECURSIVE Unwind(_, _)
Unwind(frames, ret) ==
    IF frames = <<>> THEN ret
    ELSE Unwind(SubSeq(frames, 1, Len(frames) - 1),
                FrameReturn(frames[Len(frames)], ret))

\* one step of retrieve_json on task t: the request of t.url answered with
\* `status` and the parsed body `json`
RetrieveJson(t, status, json) ==
    IF status \notin HTTP_OK THEN [t EXCEPT !.state = "failed"]
    ELSE IF json.type = "dict" /\ DOMAIN json.val = EnvelopeKeys
    THEN IF Falsy(json.val.next)
         THEN [t EXCEPT !.state = "done",
                        !.result = Unwind(t.frames, json.val.results),
                        !.frames = <<>>]
         ELSE [t EXCEPT !.url = json.val.next,
                        !.frames = Append(t.frames, json.val.results)]
    ELSE IF t.frames # <<>> /\ json.type # "list"
    THEN [t EXCEPT !.state = "failed"]      \* list + dict: TypeError
    ELSE [t EXCEPT !.state = "done",
                   !.result = IF json.type = "list"
                              THEN Unwind(t.frames, json.val) ELSE json.val,
                   !.frames = <<>>]

\* the log of the requests, one more of `url` made
Requested(url) ==
    IF url \in DOMAIN requests THEN [requests EXCEPT ![url] = @ + 1]
    ELSE (url :> 1) @@ requests

\* a task of the event loop takes its next request
RetrieveJsonStep(c, status) ==
    /\ pc \in {"json", "info", "components"}
    /\ tasks[c].state = "pending"
    /\ requests' = Requested(tasks[c].url)
    /\ tasks' = [tasks EXCEPT ![c] = RetrieveJson(tasks[c], status, server[tasks[c].url])]
    /\ UNCHANGED <<args, server, pc, book, fetched, patched, replaced, scratch, disk, saved, elem>>

(***************************************************************************)
(* URL references: urllib.parse.urlparse and ParseResult.geturl.           *)
(***************************************************************************)
SchemeTokens == {"https:"}
NetlocTokens == {"//host"}
QueryTokens == {"?q"}
FragmentTokens == {"#f"}

\* urlparse(s): scheme, netloc, path, query, fragment
UrlParse(s) ==
    LET scheme == IF s # <<>> /\ s[1] \in SchemeTokens THEN <<s[1]>> ELSE <<>>
        r1 == SubSeq(s, Len(scheme) + 1, Len(s))
        netloc == IF r1 # <<>> /\ r1[1] \in NetlocTokens THEN <<r1[1]>> ELSE <<>>
        r2 == SubSeq(r1, Len(netloc) + 1, Len(r1))
        fragment == IF r2 # <<>> /\ r2[Len(r2)] \in FragmentTokens
                    THEN <<r2[Len(r2)]>> ELSE <<>>
        r3 == SubSeq(r2, 1, Len(r2) - Len(fragment))
        query == IF r3 # <<>> /\ r3[Len(r3)] \in QueryTokens
                 THEN <<r3[Len(r3)]>> ELSE <<>>
    IN [scheme |-> scheme, netloc |-> netloc,
        path |-> SubSeq(r3, 1, Len(r3) - Len(query)),
        query |-> query, fragment |-> fragment]

\* geturl() (urlunsplit): a path that follows a host gets its leading "/"
GetUrl(link) ==
    LET path == IF link.netloc # <<>> /\ link.path # <<>> /\ link.path[1] # "/"
                THEN <<"/">> \o link.path ELSE link.path
    IN link.scheme \o link.netloc \o path \o link.query \o link.fragment

\* re.match(r'^/', s): the first character is a slash
LeadingSlash(s) == s # <<>> /\ s[1] \in {"/"} \cup NetlocTokens

\* s.endswith('.opf')
EndsWithOpf(s) == Len(s) >= 2 /\ s[Len(s) - 1] = "." /\ s[Len(s)] = "opf"

(***************************************************************************)
(* The document: file records, assets, chapters.                           *)
(***************************************************************************)
ApiFiles == <<"https:", "//api", "/", "files", "/">>

\* a record of the `files` collection
FileRecord(kind, media_type, full_path) ==
    [kind |-> kind, media_type |-> media_type, full_path |-> full_path,
     filename |-> Basename(full_path),
     filename_ext |-> SubSeq(full_path, Len(full_path) - 1, Len(full_path)),
     url |-> ApiFiles \o full_path,
     ourn |-> <<"urn:file:">> \o full_path]

\* next(item for item in seq if P(item)): the first match, or none
FirstIndex(seq, P(_)) ==
    IF \E i \in 1..Len(seq) : P(seq[i])
    THEN CHOOSE i \in 1..Len(seq) : P(seq[i]) /\ \A j \in 1..(i - 1) : ~P(seq[j])
    ELSE 0

\* _request(session, asset['url'], data=asset): data | content_type | read
Asset(file, content, encoding, read) ==
    [f \in DOMAIN file \cup {"content", "encoding", "read"} |->
        CASE f = "content" -> content
          [] f = "encoding" -> encoding
          [] f = "read" -> read
          [] OTHER -> file[f]]

\* asset.x = v, a new attribute included
SetAttr(asset, name, v) ==
    [f \in DOMAIN asset \cup {name} |-> IF f = name THEN v ELSE asset[f]]

Inactive(asset) == "inactive" \in DOMAIN asset

(***************************************************************************)
(* The Asset Transform Engine: _patch.                                     *)
(***************************************************************************)
OpfMediaType == <<"application", "/", "oebps-package+xml">>

\* CONST.ATTRS: the element and the attribute of //a[@href] and //img[@src]
ATTRS == <<[elem |-> "a", name |-> "href"], [elem |-> "img", name |-> "src"]>>

\* the fields the replacement of a font takes from the original
FontFields == {"media_type", "ourn", "url", "full_path", "filename", "filename_ext"}

TranscoderCodes == {0, 1}

\* what woff2_compress makes of the bytes of a font
Transcode(bytes) == <<"woff2(">> \o bytes \o <<")">>

\* the file woff2_compress writes: the input's name, its last extension
\* replaced by .woff2
OutName(name) ==
    LET dots == {i \in 1..Len(name) : name[i] = "."}
    IN (IF dots = {} THEN name ELSE SubSeq(name, 1, Max(dots) - 1)) \o <<".", "woff2">>

\* subprocess.run(['woff2_compress', original_font]) returning 0
Woff2Compress(scr, name) == (OutName(name) :> Transcode(scr[name])) @@ scr

\* the outcome of one _patch call: whether it raised, the asset as it is left,
\* what it returned (<<>> for None) and the scratch directory
Outcome(status, asset, ret, scr) ==
    [status |-> status, asset |-> asset, ret |-> ret, scratch |-> scr]

\* the set the font branch tests asset.full_path against
FontPaths(assets) ==
    {assets[i].full_path : i \in
        {j \in 1..Len(assets) :
            /\ assets[j].kind \in {"font", "other_asset"}
            /\ Len(SplitSlash(assets[j].media_type)) = 2
            /\ SplitSlash(assets[j].media_type)[2] # <<"woff2">>
            /\ SplitSlash(assets[j].media_type)[1] = <<"font">>}}

\* the scratch file the replacement's content is read from
ReadBackName(asset) == asset.filename

\* the substitution applied to each of the replacement's fields
FontRename(s) == ReSubFont(s)

\* the font branch: lines 121-139
PatchFont(asset, scr, rc) ==
    LET marked == SetAttr(asset, "inactive", TRUE)
        original_font == asset.filename
        scr1 == (original_font :> asset.read) @@ scr
        scr2 == Woff2Compress(scr1, original_font)
        woff_asset == [f \in FontFields \cup {"read"} |->
                          IF f = "read" THEN scr2[ReadBackName(asset)]
                          ELSE FontRename(asset[f])]
    IN IF rc # 0 THEN Outcome("error", marked, <<>>, scr1)
       ELSE Outcome("ok", marked, <<woff_asset>>, scr2)

\* the relocation of one reference: lines 181-188; StopIteration when no
\* file record has the basename
StopIteration == <<"StopIteration">>

\* a variant of RewriteRef: a reference that matches no file record is left
\* as it is
RewriteRefLenient(val, prefix, files) ==
    LET link == UrlParse(val)
        i == FirstIndex(files, LAMBDA item : item.filename = Basename(link.path))
    IN IF link.path # <<>> /\ link.scheme = <<>> /\ i # 0
       THEN GetUrl([link EXCEPT
                !.path = Join(NonEmpty(<<prefix, files[i].full_path>>)),
                !.scheme = <<>>, !.netloc = <<>>])
       ELSE val

\* a variant of RewriteRef: the reference's own path is put under the prefix
RewriteRefRelative(val, prefix, files) ==
    LET link == UrlParse(val)
        i == FirstIndex(files, LAMBDA item : item.filename = Basename(link.path))
    IN IF link.path # <<>> /\ link.scheme = <<>>
       THEN IF i = 0 THEN <<"StopIteration">>
            ELSE GetUrl([link EXCEPT
                     !.path = Join(NonEmpty(<<prefix, link.path>>)),
                     !.scheme = <<>>, !.netloc = <<>>])
       ELSE val

RewriteRef(val, prefix, files) ==
    LET link == UrlParse(val)
        i == FirstIndex(files, LAMBDA item : item.filename = Basename(link.path))
    IN IF link.path # <<>> /\ link.scheme = <<>>
       THEN IF i = 0 THEN StopIteration
            ELSE GetUrl([link EXCEPT
                     !.path = Join(NonEmpty(<<prefix, files[i].full_path>>)),
                     !.scheme = <<>>, !.netloc = <<>>])
       ELSE val

\* elementpath.select(root, '//elem[@name]') holds e
Selected(e, attr) == e.tag = attr.elem /\ attr.name \in DOMAIN e.attrs

\* the loop of lines 179-188 over the attributes, each over the whole tree; a
\* reference that raised is left as StopIteration
RECURSIVE RewriteAll(_, _, _, _)
RewriteAll(elems, attributes, prefix, files) ==
    IF attributes = <<>> THEN elems
    ELSE LET attr == Head(attributes)
             step == [i \in 1..Len(elems) |->
                        IF Selected(elems[i], attr)
                        THEN [elems[i] EXCEPT !.attrs[attr.name] =
                                  RewriteRef(@, prefix, files)]
                        ELSE elems[i]]
         IN RewriteAll(step, Tail(attributes), prefix, files)

\* whether the loop of lines 179-188 raised
RewriteRaises(elems, attributes) ==
    \E i \in 1..Len(elems) : \E k \in 1..Len(attributes) :
        /\ Selected(elems[i], attributes[k])
        /\ elems[i].attrs[attributes[k].name] = StopIteration

\* a variant of NotLocalized: only the elements the rewrite selects are checked
NotLocalizedSelected(elems, attributes) ==
    \E i \in 1..Len(elems) : \E k \in 1..Len(attributes) :
        /\ Selected(elems[i], attributes[k])
        /\ LeadingSlash(elems[i].attrs[attributes[k].name])

\* the safety check of lines 190-199: //*[fn:matches(@name, '^/') or ...]
NotLocalized(elems, attributes) ==
    \E i \in 1..Len(elems) : \E k \in 1..Len(attributes) :
        /\ attributes[k].name \in DOMAIN elems[i].attrs
        /\ LeadingSlash(elems[i].attrs[attributes[k].name])

Element(tag, attrs, text) == [tag |-> tag, attrs |-> attrs, text |-> text]

\* the chapter branch: lines 141-201
PatchChapter(bk, asset, ar, scr) ==
    LET attributes == ATTRS \o ar.extra_attrs
        prefix == DotDot(Dirname(asset.full_path))
        lang == bk.info.language
        ci == FirstIndex(bk.chapters, LAMBDA item : asset.url = item.content_url)
        chapter == bk.chapters[ci]
        css == chapter.related_assets.stylesheets
        cssIndex(k) == FirstIndex(bk.assets, LAMBDA item : item.url = css[k])
        meta == Element("meta",
                    [n \in {"http-equiv", "content", "lang", "xml:lang"} |->
                        CASE n = "http-equiv" -> <<"Content-Type">>
                          [] n = "content" -> asset.content \o <<"; charset=">>
                                              \o asset.encoding
                          [] OTHER -> lang],
                    <<>>)
        title == Element("title", [n \in {} |-> <<>>], chapter.title)
        links == [k \in 1..Len(css) |->
                    Element("link",
                        [n \in {"rel", "type", "href"} |->
                            CASE n = "rel" -> <<"stylesheet">>
                              [] n = "type" -> bk.assets[cssIndex(k)].media_type
                              [] OTHER -> Join(NonEmpty(
                                     <<prefix, bk.assets[cssIndex(k)].full_path>>))],
                        <<>>)]
        tree == <<meta, title>> \o links \o asset.read.elems
        rewritten == RewriteAll(tree, attributes, prefix, bk.files)
    IN IF ci = 0 THEN Outcome("error", asset, <<>>, scr)
       ELSE IF \E k \in 1..Len(css) : cssIndex(k) = 0
       THEN Outcome("error", asset, <<>>, scr)
       ELSE IF RewriteRaises(rewritten, attributes)
       THEN Outcome("error", asset, <<>>, scr)
       ELSE IF NotLocalized(rewritten, attributes)
       THEN Outcome("error", asset, <<>>, scr)
       ELSE Outcome("ok",
                [asset EXCEPT !.read = [type |-> "xhtml", declaration |-> TRUE,
                                        lang |-> lang, elems |-> rewritten]],
                <<>>, scr)

\* the href an item of the manifest is given: lines 211-214
ItemHref(assets, href, woff2) ==
    LET i == FirstIndex(assets, LAMBDA item : item.full_path = href)
    IN IF i = 0 THEN StopIteration
       ELSE IF woff2 THEN ReSubFont(assets[i].full_path)
       ELSE href

\* the package branch: lines 204-216
PatchPackage(bk, asset, ar, scr) ==
    LET items == [k \in 1..Len(asset.read.items) |->
                    ItemHref(bk.assets, asset.read.items[k], ar.woff2)]
    IN IF \E k \in 1..Len(items) : items[k] = StopIteration
       THEN Outcome("error", asset, <<>>, scr)
       ELSE Outcome("ok",
                [asset EXCEPT !.read = [type |-> "opf", declaration |-> TRUE,
                                        comment |-> TRUE, items |-> items]],
                <<>>, scr)

\* _patch(book, asset), the transcoder returning rc
Patch(bk, asset, ar, scr, rc) ==
    IF asset.kind \in {"image"} THEN Outcome("ok", asset, <<>>, scr)
    ELSE IF asset.kind \in {"stylesheet"}
    THEN \* args.css_map is the empty set (or __init__ raised): never replaced
         Outcome("ok", asset, <<>>, scr)
    ELSE IF ar.woff2 /\ asset.full_path \in FontPaths(bk.assets)
    THEN PatchFont(asset, scr, rc)
    ELSE IF asset.kind \in {"chapter"} THEN PatchChapter(bk, asset, ar, scr)
    ELSE IF asset.kind \in {"other_asset"} /\ asset.media_type = OpfMediaType
    THEN PatchPackage(bk, asset, ar, scr)
    ELSE Outcome("ok", asset, <<>>, scr)

(***************************************************************************)
(* The remote publication: what the API serves for a book.                 *)
(***************************************************************************)
COMPONENTS == <<"chapters", "spine", "files", "table_of_contents">>

LoginUrl == <<"https:", "//learning", "/", "profile", "/">>
InfoUrl == <<"https:", "//api", "/", "book", "/">>
ComponentUrl(c, i) == <<"https:", "//api", "/", c, "/", "?page", ToString(i)>>

Utf8 == <<"utf-8">>

PackageFile == FileRecord("other_asset", OpfMediaType, <<"package", ".", "opf">>)
ChapterFile(path) == FileRecord("chapter", <<"text", "/", "html">>, path)
ImageFile == FileRecord("image", <<"image", "/", "png">>,
                        <<"images", "/", "fig1", ".", "png">>)
StyleFile == FileRecord("stylesheet", <<"text", "/", "css">>,
                        <<"css", "/", "style", ".", "css">>)

ChapterPaths == {<<"text", "/", "ch1", ".", "html">>, <<"ch1", ".", "html">>}

\* the files a book may hold besides its package and its chapter
ExtraFiles == <<
    ImageFile,
    StyleFile,
    FileRecord("font", <<"font", "/", "ttf">>, <<"fonts", "/", "a", ".", "ttf">>),
    FileRecord("font", <<"font", "/", "otf">>, <<"fonts", "/", "a", ".", "otf">>),
    FileRecord("font", <<"font", "/", "woff">>, <<"fonts", "/", "b", ".", "woff">>),
    FileRecord("font", <<"application", "/", "vnd", ".", "ms-opentype">>,
               <<"fonts", "/", "c", ".", "otf">>),
    FileRecord("font", <<"font", "/", "woff2">>, <<"fonts", "/", "d", ".", "woff2">>),
    FileRecord("other_asset", <<"font", "/", "collection">>,
               <<"fonts", "/", "e", ".", "ttc">>) >>

\* the elements a chapter's markup may hold
NoAttrs == [n \in {} |-> <<>>]
A(href) == Element("a", [href |-> href], <<>>)
Img(src) == Element("img", [src |-> src], <<>>)
BodyElements == <<
    A(<<"/", "x", "/", "fig1", ".", "png">>),
    A(<<"https:", "//host", "/", "x", "/", "fig1", ".", "png">>),
    A(<<"//host", "/", "x", "/", "fig1", ".", "png">>),
    A(<<"#f">>),
    A(<<"/", "x", "/", "missing", ".", "png">>),
    A(<<"missing", ".", "png">>),
    Img(<<"/", "x", "/", "fig1", ".", "png", "?q", "#f">>),
    Img(<<"fig1", ".", "png">>),
    Element("script", [src |-> <<"/", "x", "/", "app", ".", "js">>], <<>>),
    Element("image", [href |-> <<"/", "x", "/", "fig1", ".", "png">>], <<>>),
    Element("link", [href |-> <<"/", "x", "/", "style", ".", "css">>], <<>>),
    Element("p", NoAttrs, <<"text">>) >>

\* the chapter bodies: the sequences of at most MaxElems elements, by index
Bodies == SeqsUpTo(1..Len(BodyElements), MaxElems)
BodyAt(s) == [i \in 1..Len(s) |-> BodyElements[s[i]]]

\* a body without references into the book
PlainBody == <<A(<<"https:", "//host", "/", "x", "/", "fig1", ".", "png">>)>>

ExtraAttrs == {<<>>, <<[elem |-> "image", name |-> "href"]>>}

\* the increasing index sequences of at most n of 1..m
Increasing(m, n) ==
    {s \in SeqsUpTo(1..m, n) : \A i \in 1..(Len(s) - 1) : s[i] < s[i + 1]}

\* a publication: its files, its chapter's markup, and the hrefs its manifest
\* lists
Publication(files, body, ghost) ==
    [files |-> files, body |-> body,
     items |-> [i \in 1..(Len(files) - 1) |-> files[i + 1].full_path]
               \o (IF ghost THEN <<<<"ghost", ".", "png">>>> ELSE <<>>)]

\* publications that differ in their files: s picks the extra files
FilePublication(s, ghost) ==
    Publication(<<PackageFile, ChapterFile(<<"text", "/", "ch1", ".", "html">>)>>
                \o [i \in 1..Len(s) |-> ExtraFiles[s[i]]], PlainBody, ghost)

\* publications that differ in their chapter: its path and its body
ChapterPublication(path, s) ==
    Publication(<<PackageFile, ChapterFile(path), ImageFile, StyleFile>>,
                BodyAt(s), FALSE)

\* the records of the `chapters` collection
ChaptersOf(pub) ==
    LET chs == SelectSeq(pub.files, LAMBDA f : f.kind = "chapter")
        css == SelectSeq(pub.files, LAMBDA f : f.kind = "stylesheet")
    IN [i \in 1..Len(chs) |->
          [content_url |-> chs[i].url, title |-> <<"Chapter">>,
           related_assets |-> [stylesheets |-> [k \in 1..Len(css) |-> css[k].url]]]]

SpineOf(pub) == <<[reference_id |-> <<"ch1">>]>>
TocOf(pub) == <<[label |-> <<"Chapter">>]>>

ComponentOf(pub, c) ==
    CASE c = "chapters" -> ChaptersOf(pub)
      [] c = "spine" -> SpineOf(pub)
      [] c = "files" -> pub.files
      [] c = "table_of_contents" -> TocOf(pub)

InfoOf(pub) ==
    [language |-> <<"en">>,
     chapters |-> ComponentUrl("chapters", 1),
     spine |-> ComponentUrl("spine", 1),
     files |-> ComponentUrl("files", 1),
     table_of_contents |-> ComponentUrl("table_of_contents", 1)]

\* the Content-Type header and the body served for a file
HeaderOf(file) ==
    IF file.kind = "chapter" THEN <<file.media_type, <<"charset", "=", "utf-8">>>>
    ELSE <<file.media_type>>

BodyOf(pub, file) ==
    IF file.kind = "chapter"
    THEN [type |-> "html", declaration |-> FALSE, lang |-> <<>>, elems |-> pub.body]
    ELSE IF file.media_type = OpfMediaType
    THEN [type |-> "opf", declaration |-> TRUE, comment |-> FALSE, items |-> pub.items]
    ELSE <<"bytes:">> \o file.full_path

\* the number of pages of a collection of n records
PagesOf(n) == IF n = 0 THEN 1 ELSE (n + PerPage - 1) \div PerPage

\* page i of a collection
PageOf(c, results, i) ==
    Envelope(Len(results),
             IF i < PagesOf(Len(results)) THEN ComponentUrl(c, i + 1) ELSE Null,
             IF i > 1 THEN ComponentUrl(c, i - 1) ELSE Null,
             SubSeq(results, (i - 1) * PerPage + 1,
                    IF i * PerPage < Len(results) THEN i * PerPage ELSE Len(results)))

\* the API: the table of contents is served as a plain list, the other
\* collections in pages
PagedComponents == {"chapters", "spine", "files"}

PageUrls(pub, c) == {ComponentUrl(c, i) : i \in 1..PagesOf(Len(ComponentOf(pub, c)))}

Serve(pub) ==
    LET fileUrls == {pub.files[i].url : i \in 1..Len(pub.files)}
        urls == {LoginUrl, InfoUrl, ComponentUrl("table_of_contents", 1)}
                \cup UNION {PageUrls(pub, c) : c \in PagedComponents} \cup fileUrls
    IN [u \in urls |->
          IF u = LoginUrl THEN [header |-> <<<<"text", "/", "html">>>>, body |-> <<"profile">>]
          ELSE IF u = InfoUrl THEN JDict(InfoOf(pub))
          ELSE IF u = ComponentUrl("table_of_contents", 1) THEN JList(TocOf(pub))
          ELSE IF u \in fileUrls
          THEN LET f == pub.files[CHOOSE i \in 1..Len(pub.files) : pub.files[i].url = u]
               IN [header |-> HeaderOf(f), body |-> BodyOf(pub, f)]
          ELSE LET c == CHOOSE c \in PagedComponents : u \in PageUrls(pub, c)
                   i == CHOOSE i \in 1..PagesOf(Len(ComponentOf(pub, c))) :
                            u = ComponentUrl(c, i)
               IN PageOf(c, ComponentOf(pub, c), i)]

\* lines 76-82: the media type and the charset of a Content-Type header
ContentType(header) ==
    [content |-> header[1],
     encoding |-> IF Len(header) >= 2 THEN <<header[2][Len(header[2])]>> ELSE Utf8]

\* the asset _request makes of a file record and the response to its URL
AssetOf(file, resp) ==
    Asset(file, ContentType(resp.header).content, ContentType(resp.header).encoding,
          resp.body)

\* the document retrieve_book returns for a publication
BookOf(pub) ==
    [info |-> InfoOf(pub),
     chapters |-> ChaptersOf(pub),
     spine |-> SpineOf(pub),
     files |-> pub.files,
     table_of_contents |-> TocOf(pub),
     assets |-> [i \in 1..Len(pub.files) |->
                    AssetOf(pub.files[i],
                            [header |-> HeaderOf(pub.files[i]),
                             body |-> BodyOf(pub, pub.files[i])])]]

(***************************************************************************)
(* run(): retrieve_book, the patch stage, the finalizer, the persistence.  *)
(***************************************************************************)
NoElem == [orig |-> <<>>, val |-> <<>>, hist |-> <<>>, state |-> "none", times |-> 0]

Pending == [state |-> "pending"]
Failed == [state |-> "failed"]

EmptyBook ==
    [info |-> <<>>, chapters |-> <<>>, spine |-> <<>>, files |-> <<>>,
     table_of_contents |-> <<>>, assets |-> <<>>]

Arguments(woff2, extra_attrs, level) ==
    [woff2 |-> woff2, extra_attrs |-> extra_attrs, css_map |-> {},
     logging_level |-> level]

\* check_login: the profile page is requested and must hold the email
CheckLogin(status, found) ==
    /\ pc = "login"
    /\ requests' = Requested(LoginUrl)
    /\ pc' = IF status \in HTTP_OK /\ found THEN "info" ELSE "failed"
    /\ UNCHANGED <<args, server, tasks, book, fetched, patched, replaced, scratch,
                   disk, saved, elem>>

\* lines 301-311: book.info is set and the four component tasks are created
StartComponents ==
    /\ pc = "info"
    /\ tasks["info"].state # "pending"
    /\ IF tasks["info"].state = "failed"
       THEN pc' = "failed" /\ UNCHANGED <<book, tasks>>
       ELSE /\ book' = [book EXCEPT !.info = tasks["info"].result]
            /\ tasks' = [c \in Range(COMPONENTS) |-> NewTask(tasks["info"].result[c])]
            /\ pc' = "components"
    /\ UNCHANGED <<args, server, requests, fetched, patched, replaced, scratch,
                   disk, saved, elem>>

\* a variant of ComponentKey: the names are bound one place off
ComponentKeyShifted(i) == COMPONENTS[(i % Len(COMPONENTS)) + 1]

\* the key each gathered result is stored under: zip(COMPONENTS, downloaded)
ComponentKey(i) == COMPONENTS[i]

\* lines 307-314: the gather of the component tasks returns, or raises the
\* first failure
GatherComponents ==
    /\ pc = "components"
    /\ IF \E c \in DOMAIN tasks : tasks[c].state = "failed"
       THEN pc' = "failed" /\ UNCHANGED <<book, fetched>>
       ELSE /\ \A c \in DOMAIN tasks : tasks[c].state = "done"
            /\ LET downloaded == [i \in 1..Len(COMPONENTS) |-> tasks[COMPONENTS[i]].result]
                   value(key) == downloaded[CHOOSE i \in 1..Len(COMPONENTS) :
                                                ComponentKey(i) = key]
               IN /\ book' = [book EXCEPT !.chapters = value("chapters"),
                                          !.spine = value("spine"),
                                          !.files = value("files"),
                                          !.table_of_contents = value("table_of_contents")]
                  /\ fetched' = [i \in 1..Len(value("files")) |-> Pending]
            /\ pc' = "assets"
    /\ UNCHANGED <<args, server, tasks, requests, patched, replaced, scratch, disk,
                   saved, elem>>

\* one task of lines 326-329: _request(session, asset['url'], data=asset)
FetchAsset(i, status) ==
    /\ pc = "assets"
    /\ i \in DOMAIN fetched
    /\ fetched[i] = Pending
    /\ requests' = Requested(book.files[i].url)
    /\ fetched' = [fetched EXCEPT ![i] =
                      IF status \in HTTP_OK
                      THEN [state |-> "done",
                            asset |-> AssetOf(book.files[i], server[book.files[i].url])]
                      ELSE Failed]
    /\ UNCHANGED <<args, server, pc, tasks, book, patched, replaced, scratch, disk,
                   saved, elem>>

\* the gather of the asset tasks returns book.assets, or raises
GatherAssets ==
    /\ pc = "assets"
    /\ IF \E i \in DOMAIN fetched : fetched[i] = Failed
       THEN pc' = "failed" /\ UNCHANGED book
       ELSE /\ \A i \in DOMAIN fetched : fetched[i].state = "done"
            /\ book' = [book EXCEPT !.assets = [i \in DOMAIN fetched |-> fetched[i].asset]]
            /\ pc' = IF args.logging_level = "DEBUG" THEN "debug" ELSE "patch"
    /\ UNCHANGED <<args, server, tasks, requests, fetched, patched, replaced, scratch,
                   disk, saved, elem>>

\* lines 345-359: the components, the raw assets and the pickle are written
\* under <root>/debug and to <root>.pickle, outside <root>/EPUB
DebugDump ==
    /\ pc = "debug"
    /\ pc' = "patch"
    /\ UNCHANGED <<args, server, tasks, requests, book, fetched, patched, replaced,
                   scratch, disk, saved, elem>>

\* the effect of a patch task on the asset, the results and the scratch files
Patched(out) ==
    /\ book' = [book EXCEPT !.assets[patched + 1] = out.asset]
    /\ replaced' = Append(replaced, [status |-> out.status, ret |-> out.ret])
    /\ scratch' = out.scratch

\* one task of lines 363-366: the patch tasks hold no await, and run one after
\* the other in the order of book.assets
PatchStep(rc) ==
    /\ pc = "patch"
    /\ patched < Len(book.assets)
    /\ Patched(Patch(book, book.assets[patched + 1], args, scratch, rc))
    /\ patched' = patched + 1
    /\ UNCHANGED <<args, server, pc, tasks, requests, fetched, disk, saved, elem>>

\* generate_epub_mimetype
Mimetype == [full_path |-> <<"..", "/", "mimetype">>, read |-> <<"application/epub+zip">>]

\* generate_epub_container, package_opf being the manifest it found
Container(package_opf) ==
    [full_path |-> <<"..", "/", "META-INF", "/", "container", ".", "xml">>,
     read |-> [type |-> "container", declaration |-> TRUE,
               rootfile |-> <<"EPUB", "/">> \o package_opf.full_path]]

\* a variant of Raised: the failures of the tasks are dropped
RaisedNever(outs) == FALSE

\* asyncio.gather raises when one of its tasks raised
Raised(outs) == \E i \in 1..Len(outs) : outs[i].status = "error"

\* [item for item in results if item]
Returned(outs) == Concat([i \in 1..Len(outs) |-> outs[i].ret])

\* lines 362-369: the gather of the patch tasks returns or raises; the
\* replacements, the container and the mimetype are appended
PatchJoin ==
    /\ pc = "patch"
    /\ patched = Len(book.assets)
    /\ IF Raised(replaced)
       THEN pc' = "failed" /\ UNCHANGED book
       ELSE LET assets == book.assets \o Returned(replaced)
                opf == FirstIndex(assets, LAMBDA item :
                           item.media_type = OpfMediaType /\ EndsWithOpf(item.full_path))
            IN IF opf = 0
               THEN pc' = "failed" /\ book' = [book EXCEPT !.assets = assets]
               ELSE /\ book' = [book EXCEPT !.assets =
                                   assets \o <<Container(assets[opf]), Mimetype>>]
                    /\ pc' = "save"
    /\ UNCHANGED <<args, server, tasks, requests, fetched, patched, replaced, scratch,
                   disk, saved, elem>>

\* whether the persistence stage writes the asset
Persisted(asset) == ~Inactive(asset)

\* one task of lines 372-376: _write(<root>/EPUB/<full_path>, asset.read)
Write(i) ==
    /\ pc = "save"
    /\ i \in 1..Len(book.assets)
    /\ i \notin saved
    /\ Persisted(book.assets[i])
    /\ disk' = (book.assets[i].full_path :> book.assets[i].read) @@ disk
    /\ saved' = saved \cup {i}
    /\ UNCHANGED <<args, server, pc, tasks, requests, book, fetched, patched, replaced,
                   scratch, elem>>

\* the gather of the write tasks returns: run() is done
Finish ==
    /\ pc = "save"
    /\ \A i \in 1..Len(book.assets) : Persisted(book.assets[i]) => i \in saved
    /\ pc' = "done"
    /\ UNCHANGED <<args, server, tasks, requests, book, fetched, patched, replaced,
                   scratch, disk, saved, elem>>

\* run() on a book read from the network
InitFetch ==
    /\ \E s \in Increasing(Len(ExtraFiles), MaxFetched), woff2 \in BOOLEAN,
          level \in {"INFO", "DEBUG"} :
         /\ server = Serve(FilePublication(s, FALSE))
         /\ args = Arguments(woff2, <<>>, level)
    /\ pc = "login"
    /\ tasks = [c \in {"info"} |-> NewTask(InfoUrl)]
    /\ book = EmptyBook

\* run() on the book of <root>.pickle (lines 335-340): one an earlier run with
\* logging level DEBUG retrieved
InitPickle ==
    /\ \/ \E s \in Increasing(Len(ExtraFiles), MaxExtra), ghost \in BOOLEAN,
             woff2 \in BOOLEAN :
            /\ book = BookOf(FilePublication(s, ghost))
            /\ server = Serve(FilePublication(s, ghost))
            /\ args = Arguments(woff2, <<>>, "DEBUG")
       \/ \E p \in ChapterPaths, s \in Bodies, extra \in ExtraAttrs :
            /\ book = BookOf(ChapterPublication(p, s))
            /\ server = Serve(ChapterPublication(p, s))
            /\ args = Arguments(FALSE, extra, "DEBUG")
    /\ pc = "patch"
    /\ tasks = <<>>

Init ==
    /\ InitFetch \/ InitPickle
    /\ requests = <<>>
    /\ fetched = <<>>
    /\ patched = 0
    /\ replaced = <<>>
    /\ scratch = <<>>
    /\ disk = <<>>
    /\ saved = {}
    /\ elem = NoElem

Next ==
    \/ \E status \in Statuses, found \in BOOLEAN : CheckLogin(status, found)
    \/ \E c \in DOMAIN tasks, status \in Statuses : RetrieveJsonStep(c, status)
    \/ StartComponents
    \/ GatherComponents
    \/ \E i \in DOMAIN fetched, status \in Statuses : FetchAsset(i, status)
    \/ GatherAssets
    \/ DebugDump
    \/ \E rc \in TranscoderCodes : PatchStep(rc)
    \/ PatchJoin
    \/ \E i \in 1..Len(book.assets) : Write(i)
    \/ Finish

Spec == Init /\ [][Next]_vars

(***************************************************************************)
(* Properties of run().                                                    *)
(***************************************************************************)
\* the number of assets retrieve_book made: one per file record
Originals == Len(book.files)

\* the URLs of the per-file assets on the remote
IsAssetUrl(u) == u # LoginUrl /\ "header" \in DOMAIN server[u]

\* the collection the remote serves from `url` on: its pages, drained
RECURSIVE Drain(_)
Drain(url) ==
    IF DOMAIN server[url].val = EnvelopeKeys
    THEN server[url].val.results
         \o (IF server[url].val.next = Null THEN <<>> ELSE Drain(server[url].val.next))
    ELSE server[url].val

\* C2: no per-file asset is requested before the four component fetches have
\* all completed, and once they are gathered each component of the book is
\* the collection served under that component's name, whatever the order in
\* which the requests were answered.
ComponentsJoinedAndBound ==
    /\ (\E u \in DOMAIN requests : IsAssetUrl(u)) =>
           /\ DOMAIN tasks = Range(COMPONENTS)
           /\ \A c \in DOMAIN tasks : tasks[c].state = "done"
    /\ (LoginUrl \in DOMAIN requests /\ pc \in {"assets", "debug", "patch", "save", "done"}) =>
           \A c \in Range(COMPONENTS) : book[c] = Drain(server[InfoUrl].val[c])

\* the asset requests are under way after a gather of paginated components
ComponentsWitness ==
    /\ pc = "assets"
    /\ \E u \in DOMAIN requests : IsAssetUrl(u)
    /\ \E i \in DOMAIN fetched : fetched[i].state = "pending"
    /\ Len(book.files) > PerPage
    /\ book.files = Drain(server[InfoUrl].val.files)
    /\ book.chapters # book.files

PatchFailed == \E i \in 1..Len(replaced) : replaced[i].status = "error"

\* C3: once a task of a fan-out has failed, run() never reaches the
\* persistence stage and nothing is written under <root>/EPUB (nor the
\* container or the mimetype); no URL is requested twice and no asset is
\* patched twice.
AllOrNothing ==
    /\ (\E c \in DOMAIN tasks : tasks[c].state = "failed") =>
           pc \in {"info", "components", "failed"}
    /\ (\E i \in DOMAIN fetched : fetched[i].state = "failed") => pc \in {"assets", "failed"}
    /\ PatchFailed => pc \in {"patch", "failed"}
    /\ pc \notin {"save", "done"} => (DOMAIN disk = {} /\ saved = {})
    /\ \A u \in DOMAIN requests : requests[u] <= 1
    /\ Len(replaced) = patched /\ patched <= Originals

\* a patch task has failed beside one that returned a replacement, and run()
\* has raised
AllOrNothingWitness ==
    /\ pc = "failed"
    /\ PatchFailed
    /\ \E i \in 1..Len(replaced) : replaced[i].status = "ok" /\ replaced[i].ret # <<>>
    /\ patched = Originals

\* C4: no two assets of the document share a full_path, after the assembly,
\* after the patch stage and after the finalizer.
UniquePaths ==
    \A i, j \in 1..Len(book.assets) :
        i # j => book.assets[i].full_path # book.assets[j].full_path

\* s ends in .woff2
EndsWithWoff2(s) == Len(s) >= 2 /\ s[Len(s) - 1] = "." /\ s[Len(s)] = "woff2"

\* an asset of kind font or other_asset whose media type is font/<x>, x not woff2
NonCompressedFont(a) ==
    /\ a.kind \in {"font", "other_asset"}
    /\ Len(a.media_type) >= 3
    /\ a.media_type[1] = "font"
    /\ Slashes(a.media_type) = {2}
    /\ SubSeq(a.media_type, 3, Len(a.media_type)) # <<"woff2">>

\* C5: with --woff2, after a successful patch stage every non-compressed font
\* has exactly one replacement, whose full_path and filename end in .woff2;
\* the original is inactive and still in the list; the persistence stage
\* writes the replacement and not the original.
FontSubstitution ==
    (args.woff2 /\ pc \in {"save", "done"}) =>
        \A i \in 1..Originals :
            NonCompressedFont(book.assets[i]) =>
                /\ Len(replaced[i].ret) = 1
                /\ EndsWithWoff2(replaced[i].ret[1].full_path)
                /\ EndsWithWoff2(replaced[i].ret[1].filename)
                /\ Inactive(book.assets[i])
                /\ \E j \in (Originals + 1)..(Len(book.assets) - 2) :
                       book.assets[j] = replaced[i].ret[1]
                /\ i \notin saved
                /\ pc = "done" =>
                       /\ replaced[i].ret[1].full_path \in DOMAIN disk
                       /\ book.assets[i].full_path \notin DOMAIN disk

\* C6: the content of a font's replacement is the transcoder's output for the
\* scratch copy of the font, not the font's own bytes, and its full_path,
\* filename and media type end in the compressed-font extension.
ReplacementContent ==
    \A i \in 1..Len(replaced) :
        replaced[i].ret # <<>> =>
            /\ replaced[i].ret[1].read = Transcode(book.assets[i].read)
            /\ replaced[i].ret[1].read # book.assets[i].read
            /\ EndsWithWoff2(replaced[i].ret[1].full_path)
            /\ EndsWithWoff2(replaced[i].ret[1].filename)
            /\ EndsWithWoff2(replaced[i].ret[1].media_type)

\* the references the rewrite is configured for
Configured == ATTRS \o args.extra_attrs

\* a configured reference of the markup with a path, no scheme, and a
\* basename that is the filename of no file record
MissingRef(elems) ==
    \E i \in 1..Len(elems) : \E k \in 1..Len(Configured) :
        /\ elems[i].tag = Configured[k].elem
        /\ Configured[k].name \in DOMAIN elems[i].attrs
        /\ UrlParse(elems[i].attrs[Configured[k].name]).path # <<>>
        /\ UrlParse(elems[i].attrs[Configured[k].name]).scheme = <<>>
        /\ \A f \in 1..Len(book.files) :
               book.files[f].filename #
                   Basename(UrlParse(elems[i].attrs[Configured[k].name]).path)

\* the body the remote serves for the i-th file
Served(i) == server[book.files[i].url].body

\* C7: the patch of a chapter whose markup holds a configured reference with
\* a path, no scheme and a basename absent from the file index raises; the
\* chapter's content stays as fetched and nothing is written.
FatalOnMissingReference ==
    \A i \in 1..patched :
        (book.assets[i].kind = "chapter" /\ MissingRef(Served(i).elems)) =>
            /\ replaced[i].status = "error"
            /\ book.assets[i].read = Served(i)
            /\ pc \notin {"save", "done"}
            /\ DOMAIN disk = {}

\* the chapter whose only reference is the local missing.png has been patched
FatalWitness ==
    /\ pc = "failed"
    /\ \E i \in 1..patched :
          /\ book.assets[i].kind = "chapter"
          /\ Len(Served(i).elems) = 1
          /\ Served(i).elems[1].tag = "a"
          /\ Served(i).elems[1].attrs.href = <<"missing", ".", "png">>
          /\ replaced[i].status = "error"

\* an attribute of the element is a configured reference attribute whose
\* value begins with a slash
SlashReference(e) ==
    \E k \in 1..Len(Configured) :
        /\ Configured[k].name \in DOMAIN e.attrs
        /\ e.attrs[Configured[k].name] # <<>>
        /\ e.attrs[Configured[k].name][1] \in {"/", "//host"}

\* C9: a chapter whose patch completed holds no element, selected or not,
\* with a configured reference attribute that begins with "/"; a chapter whose
\* patch raised keeps the content it was fetched with.
SafetyNet ==
    \A i \in 1..patched :
        book.assets[i].kind = "chapter" =>
            IF replaced[i].status = "ok"
            THEN /\ book.assets[i].read.type = "xhtml"
                 /\ \A k \in 1..Len(book.assets[i].read.elems) :
                        ~SlashReference(book.assets[i].read.elems[k])
            ELSE book.assets[i].read = Served(i)

\* a chapter served with slash references has been patched: the references
\* are relocated and the stylesheet link is in place
SafetyNetWitness ==
    \E i \in 1..patched :
        /\ book.assets[i].kind = "chapter"
        /\ replaced[i].status = "ok"
        /\ Len(Served(i).elems) = 2
        /\ \A k \in 1..2 : SlashReference(Served(i).elems[k])
        /\ \E k \in 1..Len(book.assets[i].read.elems) :
               book.assets[i].read.elems[k].tag = "link"

\* C10: after a successful run every item href of the patched manifest is the
\* full_path of an asset that is persisted.
ManifestIntegrity ==
    pc = "done" =>
        \A i \in 1..Originals :
            book.assets[i].media_type = OpfMediaType =>
                \A k \in 1..Len(book.assets[i].read.items) :
                    \E j \in 1..Len(book.assets) :
                        /\ book.assets[j].full_path = book.assets[i].read.items[k]
                        /\ ~Inactive(book.assets[j])
                        /\ book.assets[j].full_path \in DOMAIN disk

(***************************************************************************)
(* The pagination study: one retrieve_json call on a chain of pages.       *)
(***************************************************************************)
PageUrl(i) == <<"page", ToString(i)>>

Records == {"r1", "r2"}

\* the chain of pages whose results are rs[1], ..., rs[n]
Chain(rs) ==
    [u \in {PageUrl(i) : i \in 1..Len(rs)} |->
        LET i == CHOOSE j \in 1..Len(rs) : PageUrl(j) = u
        IN Envelope(Len(rs),
                    IF i < Len(rs) THEN PageUrl(i + 1) ELSE Null,
                    IF i > 1 THEN PageUrl(i - 1) ELSE Null,
                    rs[i])]


InitPage ==
    /\ \E n \in 1..MaxPages :
         \E rs \in [1..n -> SeqsUpTo(Records, MaxResults)] : server = Chain(rs)
    /\ pc = "json"
    /\ tasks = [c \in {"page"} |-> NewTask(PageUrl(1))]
    /\ requests = <<>>
    /\ args = Arguments(FALSE, <<>>, "INFO")
    /\ book = EmptyBook
    /\ fetched = <<>>
    /\ patched = 0
    /\ replaced = <<>>
    /\ scratch = <<>>
    /\ disk = <<>>
    /\ saved = {}
    /\ elem = NoElem

NextPage == \E status \in Statuses : RetrieveJsonStep("page", status)

SpecPage == InitPage /\ [][NextPage]_vars

\* the results of the pages of the chain, in page order
AllResults == Concat([i \in 1..Cardinality(DOMAIN server) |-> server[PageUrl(i)].val.results])

\* C1: on a chain of N >= 1 pages, retrieve_json returns the concatenation of
\* the pages' results in page order, with exactly one request per page;
\* for N = 1 that is the one page's results.
PaginationConcat ==
    tasks["page"].state = "done" =>
        /\ tasks["page"].result = AllResults
        /\ requests = [u \in DOMAIN server |-> 1]

\* a chain of three pages, with differing (and one empty) results, fully drained
PaginationWitness ==
    /\ tasks["page"].state = "done"
    /\ Cardinality(DOMAIN server) = 3
    /\ server[PageUrl(1)].val.results = <<"r1", "r2">>
    /\ server[PageUrl(2)].val.results = <<>>
    /\ server[PageUrl(3)].val.results = <<"r2">>
    /\ tasks["page"].result = <<"r1", "r2", "r2">>

(***************************************************************************)
(* The path rewrite study: the relocation of lines 181-188 applied again   *)
(* and again to the reference attribute of one element of a chapter.       *)
(***************************************************************************)
RefHeads == {<<>>, <<"https:", "//host">>, <<"//host">>}
RefDirs == {<<>>, <<"/", "x", "/">>, <<"..", "/", "images", "/">>, <<"images", "/">>}
RefNames == {<<>>, <<"fig1", ".", "png">>, <<"missing", ".", "png">>,
             <<"style", ".", "css">>}
RefTails == {<<>>, <<"?q">>, <<"#f">>, <<"?q", "#f">>}

\* the values of a reference attribute; a path that follows a host starts
\* with "/"
References ==
    {r \in {h \o d \o n \o t : h \in RefHeads, d \in RefDirs, n \in RefNames,
                               t \in RefTails} :
        (UrlParse(r).netloc # <<>> /\ UrlParse(r).path # <<>>) =>
            UrlParse(r).path[1] = "/"}

\* the chapter of the book, and the prefix its references are relocated with
TheChapter == book.assets[FirstIndex(book.assets, LAMBDA item : item.kind = "chapter")]
ChapterPrefix == DotDot(Dirname(TheChapter.full_path))

\* elem.attrib[attr.name] after one more pass of lines 181-188 that computed v
Rewritten(e, v) ==
    IF v = StopIteration
    THEN [e EXCEPT !.state = "raised", !.times = @ + 1]
    ELSE [e EXCEPT !.val = v, !.hist = Append(@, v), !.times = @ + 1]

\* lines 181-188 on the element's attribute
RewriteStep ==
    /\ pc = "rewrite"
    /\ elem.state = "ok"
    /\ elem.times < MaxRewrites
    /\ elem' = Rewritten(elem, RewriteRef(elem.val, ChapterPrefix, book.files))
    /\ UNCHANGED <<args, server, pc, tasks, requests, book, fetched, patched, replaced,
                   scratch, disk, saved>>

InitRewrite ==
    /\ \E p \in ChapterPaths :
         /\ book = BookOf(ChapterPublication(p, <<>>))
         /\ server = Serve(ChapterPublication(p, <<>>))
    /\ \E r \in References :
         elem = [orig |-> r, val |-> r, hist |-> <<>>, state |-> "ok", times |-> 0]
    /\ pc = "rewrite"
    /\ args = Arguments(FALSE, <<>>, "INFO")
    /\ tasks = <<>>
    /\ requests = <<>>
    /\ fetched = <<>>
    /\ patched = 0
    /\ replaced = <<>>
    /\ scratch = <<>>
    /\ disk = <<>>
    /\ saved = {}

NextRewrite == RewriteStep

SpecRewrite == InitRewrite /\ [][NextRewrite]_vars

\* the reference has a path and no scheme
Local(ref) == UrlParse(ref).path # <<>> /\ UrlParse(ref).scheme = <<>>

\* the basename of the reference's path is the filename of a file record
Matches(ref) ==
    \E f \in 1..Len(book.files) : book.files[f].filename = Basename(UrlParse(ref).path)

====
